---- MODULE Spec2Model ----
(***************************************************************************)
(* Model of the two batch jobs of the repository:                          *)
(*   scripts/generate_lines_stats.py    (lines-of-code leaderboard)        *)
(*   scripts/generate_activity_graph.py (90-day commit activity chart)     *)
(*                                                                         *)
(* Each job is single-threaded.  The GitHub API is the environment: every  *)
(* response is a nondeterministic choice from a small set.                 *)
(***************************************************************************)
EXTENDS Integers, Sequences, FiniteSets, TLC

VARIABLES
    \* ---- get_code_frequency (one call) ----
    cf_pc,        \* "idle" | "POLLING" | "DATA" | "PERMANENT_ERROR" | "TIMEOUT"
    waited,       \* the local `waited`
    ret,          \* the returned series (meaningful once cf_pc is terminal)
    respLog,      \* history: the responses received by this call, in order
    sleepLog,     \* history: the durations of the sleeps of this call, in order
    \* ---- get_org_repos ----
    lr_pc,        \* "listing" | "done"
    repos,        \* the local `repos`
    page,         \* the local `page`
    pageLog,      \* history: [page, resp] of every request, in order
    \* ---- main of generate_lines_stats.py ----
    m_pc,         \* "idle" | "round" | "fetch" | "render" | "done"
    repo_names,   \* the list `repo_names`
    repo_stats,   \* the dict `repo_stats`, as its entries in insertion order
    round_num,    \* number of iterations of `for round_num in range(3)` begun
    pending,      \* the list `pending` of the current round
    idx,          \* position in `pending` of the repository being processed
    svg,          \* what generate_lines_svg rendered (rows, footer)
    fetches,      \* history: calls of get_code_frequency per repository name
    watched,      \* observer: one repository name, fixed for the run
    watchedWait,  \* history: seconds slept polling for `watched`, whole run
    \* ---- a call of calc_diff_boxes ----
    b_pc,         \* "idle" | "call" | "done"
    b_in,         \* the arguments [additions, deletions, max_total]
    b_out,        \* the returned pair <<add_boxes, del_boxes>>
    \* ---- main of generate_activity_graph.py ----
    a_pc,         \* "idle" | "commits" | "render" | "done"
    a_names,      \* the names of `repos`, in listing order
    a_idx,        \* position of the repository being processed
    c_page,       \* the local `page` of get_daily_commits
    commits_by_day,     \* the local defaultdict of get_daily_commits
    all_daily_commits,  \* the defaultdict of main
    dailyLog,     \* history: the maps get_daily_commits returned, in order
    chart,        \* what generate_full_activity_svg plotted
    \* ---- two runs of the aggregation over the same fetched data ----
    o_pc,         \* "idle" | "run" | "render" | "done"
    o_idx,        \* number of repositories both runs have processed
    orderA,       \* the processing order of run A
    orderB,       \* the processing order of run B
    fetchedCF,    \* per repository: the code-frequency series fetched
    fetchedDaily, \* per repository: the daily commit map fetched
    statsA,       \* repo_stats of run A
    statsB,       \* repo_stats of run B
    dailyA,       \* all_daily_commits of run A
    dailyB,       \* all_daily_commits of run B
    outA,         \* [svg, chart] rendered by run A
    outB          \* [svg, chart] rendered by run B

fetchVars == <<cf_pc, waited, ret, respLog, sleepLog>>
listVars == <<lr_pc, repos, page, pageLog>>
linesVars == <<m_pc, repo_names, repo_stats, round_num, pending, idx, svg,
               fetches, watched, watchedWait>>

boxVars == <<b_pc, b_in, b_out>>
actVars == <<a_pc, a_names, a_idx, c_page, commits_by_day, all_daily_commits,
             dailyLog, chart>>

orderVars == <<o_pc, o_idx, orderA, orderB, fetchedCF, fetchedDaily,
               statsA, statsB, dailyA, dailyB, outA, outB>>

vars == <<fetchVars, listVars, linesVars, boxVars, actVars, orderVars>>

(***************************************************************************)
(* Helpers                                                                 *)
(***************************************************************************)
Max(a, b) == IF a >= b THEN a ELSE b
Min(a, b) == IF a <= b THEN a ELSE b
Abs(x) == IF x < 0 THEN -x ELSE x

\* sum(s), by halves (the recursion stays shallow on a 90-element series)
RECURSIVE SumSeq(_)
SumSeq(s) ==
    IF Len(s) = 0 THEN 0
    ELSE IF Len(s) = 1 THEN s[1]
    ELSE SumSeq(SubSeq(s, 1, Len(s) \div 2))
           + SumSeq(SubSeq(s, Len(s) \div 2 + 1, Len(s)))

\* Python truthiness of a parsed JSON array: `if data:` / `if not data:`
Truthy(data) == data # <<>>

(***************************************************************************)
(* get_code_frequency  (generate_lines_stats.py 37-63)                     *)
(***************************************************************************)
max_wait == 60
wait_time == 5

\* A code-frequency body is a list of weeks; a week is [ts, additions, deletions]
\* (a week shorter than 3 elements is skipped by main).
Bodies ==
    { <<>>,                                  \* empty array: still computing
      << <<1, 0, 0>> >>,                     \* data, but no change at all
      << <<1, 3, -1>>, <<2, 7>>, <<3, 2, 0>> >>,   \* +5 / -1, one short week
      << <<1, 0, -2>> >> }                   \* deletions only

\* The responses of the stats endpoint.  Only a 200 body is ever parsed.
CodeFreqResponses ==
    [status : {200}, body : Bodies]
      \cup { [status |-> 202, body |-> <<>>],
             [status |-> 204, body |-> <<>>],
             [status |-> 404, body |-> << <<0>> >>] }

\* (the loop test written with <=: one iteration too many)
LoopGuardOff(w) == w <= max_wait
\* The loop test of `while waited < max_wait`
LoopGuard(w) == w < max_wait

\* (the loop body without its else branch: every other status keeps polling)
PollStepNoError(w, resp) ==
    IF resp.status = 200 /\ Truthy(resp.body)
    THEN [pc |-> "DATA", waited |-> w, ret |-> resp.body, slept |-> <<>>]
    ELSE [pc |-> "POLLING", waited |-> w + wait_time, ret |-> <<>>,
          slept |-> <<wait_time>>]
\* One iteration of the loop body, given the response to its request.
PollStep(w, resp) ==
    IF resp.status = 200
    THEN IF Truthy(resp.body)
         THEN [pc |-> "DATA", waited |-> w, ret |-> resp.body, slept |-> <<>>]
         ELSE [pc |-> "POLLING", waited |-> w + wait_time, ret |-> <<>>,
               slept |-> <<wait_time>>]
    ELSE IF resp.status = 202
    THEN [pc |-> "POLLING", waited |-> w + wait_time, ret |-> <<>>,
          slept |-> <<wait_time>>]
    ELSE [pc |-> "PERMANENT_ERROR", waited |-> w, ret |-> <<>>, slept |-> <<>>]

(* The state of a job, function or call that a specification does not run. *)
IdleFetch ==
    /\ cf_pc = "idle"
    /\ waited = 0
    /\ ret = <<>>
    /\ respLog = <<>>
    /\ sleepLog = <<>>

IdleList ==
    /\ lr_pc = "idle"
    /\ repos = <<>>
    /\ page = 0
    /\ pageLog = <<>>

NoSvg == [rows |-> <<>>, total_added |-> 0, total_deleted |-> 0, count |-> 0,
          height |-> 0]

IdleLines ==
    /\ m_pc = "idle"
    /\ repo_names = <<>>
    /\ repo_stats = <<>>
    /\ round_num = 0
    /\ pending = <<>>
    /\ idx = 0
    /\ svg = NoSvg
    /\ fetches = <<>>
    /\ watched = 0
    /\ watchedWait = 0

IdleBoxes ==
    /\ b_pc = "idle"
    /\ b_in = [additions |-> 0, deletions |-> 0, max_total |-> 0]
    /\ b_out = <<0, 0>>

NoChart == [dates |-> <<>>, values |-> <<>>, max_val |-> 0, total |-> 0]

IdleActivity ==
    /\ a_pc = "idle"
    /\ a_names = <<>>
    /\ a_idx = 0
    /\ c_page = 0
    /\ commits_by_day = <<>>
    /\ all_daily_commits = <<>>
    /\ dailyLog = <<>>
    /\ chart = NoChart

NoOut == [svg |-> NoSvg, chart |-> NoChart]

IdleOrder ==
    /\ o_pc = "idle"
    /\ o_idx = 0
    /\ orderA = <<>>
    /\ orderB = <<>>
    /\ fetchedCF = <<>>
    /\ fetchedDaily = <<>>
    /\ statsA = <<>>
    /\ statsB = <<>>
    /\ dailyA = <<>>
    /\ dailyB = <<>>
    /\ outA = NoOut
    /\ outB = NoOut

InitFetch ==
    /\ cf_pc = "POLLING"
    /\ waited = 0
    /\ ret = <<>>
    /\ respLog = <<>>
    /\ sleepLog = <<>>
    /\ IdleList
    /\ IdleLines
    /\ IdleBoxes
    /\ IdleActivity
    /\ IdleOrder

\* requests.get + the branch on the response + the sleep
Poll ==
    /\ cf_pc = "POLLING"
    /\ LoopGuard(waited)
    /\ \E resp \in CodeFreqResponses :
         LET r == PollStep(waited, resp) IN
         /\ cf_pc' = r.pc
         /\ waited' = r.waited
         /\ ret' = r.ret
         /\ respLog' = Append(respLog, resp)
         /\ sleepLog' = sleepLog \o r.slept
    /\ UNCHANGED <<listVars, linesVars, boxVars, actVars, orderVars>>

\* the loop test fails: print "Timeout", return []
Timeout ==
    /\ cf_pc = "POLLING"
    /\ ~LoopGuard(waited)
    /\ cf_pc' = "TIMEOUT"
    /\ ret' = <<>>
    /\ UNCHANGED <<waited, respLog, sleepLog>>
    /\ UNCHANGED <<listVars, linesVars, boxVars, actVars, orderVars>>

NextFetch == Poll \/ Timeout

SpecFetch == InitFetch /\ [][NextFetch]_vars
\* The call is straight-line blocking code: it keeps running until it returns.
FairSpecFetch == SpecFetch /\ WF_vars(NextFetch)

Terminal == {"DATA", "PERMANENT_ERROR", "TIMEOUT"}
IsPendingResp(r) == r.status = 202 \/ (r.status = 200 /\ r.body = <<>>)
AllPending(log) == \A i \in 1..Len(log) : IsPendingResp(log[i])
ButLast(s) == SubSeq(s, 1, Len(s) - 1)
Last(s) == s[Len(s)]

\* C1: a call of get_code_frequency ends in exactly one of DATA (the body of
\* the first non-empty 200 poll, every earlier poll being 202 or empty 200),
\* PERMANENT_ERROR (empty series at the first poll that is neither 200 nor 202,
\* no further request) or TIMEOUT (empty series once the accumulated wait
\* reaches 60 s); it never leaves the outcome, and the returned series is
\* non-empty iff the outcome is DATA.
C1_Outcomes ==
    /\ cf_pc \in Terminal \cup {"POLLING"}
    /\ cf_pc = "POLLING" => AllPending(respLog)
    /\ cf_pc = "DATA" =>
         /\ respLog # <<>>
         /\ Last(respLog).status = 200 /\ Last(respLog).body # <<>>
         /\ ret = Last(respLog).body
         /\ AllPending(ButLast(respLog))
    /\ cf_pc = "PERMANENT_ERROR" =>
         /\ respLog # <<>>
         /\ Last(respLog).status \notin {200, 202}
         /\ ret = <<>>
         /\ AllPending(ButLast(respLog))
    /\ cf_pc = "TIMEOUT" =>
         /\ AllPending(respLog)
         /\ SumSeq(sleepLog) >= 60
         /\ ret = <<>>
    /\ cf_pc \in Terminal => ~ENABLED NextFetch
    /\ cf_pc \in Terminal => (ret # <<>> <=> cf_pc = "DATA")

C1_Witness ==
    /\ cf_pc = "DATA"
    /\ Len(respLog) = 3
    /\ respLog[1].status = 202
    /\ respLog[2].status = 200

\* C2: a call of get_code_frequency always terminates; it issues at most 12
\* requests, sleeps exactly 5 s after each poll that neither returns data nor
\* fails, and its accumulated wait never exceeds 60 s.
C2_Bounded ==
    /\ [](/\ Len(respLog) <= 12
          /\ waited <= 60
          /\ waited = SumSeq(sleepLog)
          /\ \A i \in 1..Len(sleepLog) : sleepLog[i] = 5
          /\ Len(sleepLog) = Cardinality({i \in 1..Len(respLog) :
                                            IsPendingResp(respLog[i])}))
    /\ <>(cf_pc \in Terminal)

C2_Witness ==
    /\ cf_pc = "TIMEOUT"
    /\ Len(respLog) = 12
    /\ waited = 60

(***************************************************************************)
(* get_org_repos  (generate_lines_stats.py 19-34, identical in             *)
(* generate_activity_graph.py 19-34)                                       *)
(***************************************************************************)
MaxRepos == 2          \* number of distinct repository names
MaxPages == 3          \* cap on the pages requested (the code has none)

Names == 1..MaxRepos
RepoObjs == [name : Names]

\* A page of the listing: any list of at most 2 repository objects.
RepoPages == UNION { [1..n -> RepoObjs] : n \in 0..2 }

ListResponses ==
    [status : {200}, body : RepoPages]
      \cup { [status |-> 403, body |-> <<[name |-> 1]>>] }

\* (the loop body without its status test)
ListStepKeepGoing(rs, pg, resp) ==
    IF resp.status = 200 /\ ~Truthy(resp.body)
    THEN [pc |-> "done", repos |-> rs, page |-> pg]
    ELSE [pc |-> "listing", repos |-> rs \o resp.body, page |-> pg + 1]
\* One iteration of `while True`, given the response to its request.
ListStep(rs, pg, resp) ==
    IF resp.status # 200
    THEN [pc |-> "done", repos |-> rs, page |-> pg]
    ELSE IF ~Truthy(resp.body)
    THEN [pc |-> "done", repos |-> rs, page |-> pg]
    ELSE [pc |-> "listing", repos |-> rs \o resp.body, page |-> pg + 1]

InitRepos ==
    /\ lr_pc = "listing"
    /\ repos = <<>>
    /\ page = 1
    /\ pageLog = <<>>
    /\ IdleFetch
    /\ IdleLines
    /\ IdleBoxes
    /\ IdleActivity
    /\ IdleOrder

ListPage ==
    /\ lr_pc = "listing"
    /\ page <= MaxPages
    /\ \E resp \in ListResponses :
         LET r == ListStep(repos, page, resp) IN
         /\ lr_pc' = r.pc
         /\ repos' = r.repos
         /\ page' = r.page
         /\ pageLog' = Append(pageLog, [page |-> page, resp |-> resp])
    /\ UNCHANGED <<fetchVars, linesVars, boxVars, actVars, orderVars>>

NextRepos == ListPage

SpecRepos == InitRepos /\ [][NextRepos]_vars

RECURSIVE ConcatBodies(_)
ConcatBodies(log) ==
    IF log = <<>> THEN <<>> ELSE Head(log).resp.body \o ConcatBodies(Tail(log))

GoodPage(e) == e.resp.status = 200 /\ e.resp.body # <<>>

\* C9: get_org_repos requests pages 1, 2, 3, ... in order, stops at the first
\* page that is empty or not 200, returns exactly the concatenation of the
\* pages received before it, requests nothing after it and retries no page.
C9_Listing ==
    /\ \A i \in 1..Len(pageLog) : pageLog[i].page = i
    /\ lr_pc = "listing" =>
         /\ \A i \in 1..Len(pageLog) : GoodPage(pageLog[i])
         /\ repos = ConcatBodies(pageLog)
         /\ page = Len(pageLog) + 1
    /\ lr_pc = "done" =>
         /\ pageLog # <<>>
         /\ ~GoodPage(Last(pageLog))
         /\ \A i \in 1..(Len(pageLog) - 1) : GoodPage(pageLog[i])
         /\ repos = ConcatBodies(ButLast(pageLog))
         /\ ~ENABLED NextRepos

C9_Witness ==
    /\ lr_pc = "done"
    /\ Len(pageLog) = 3
    /\ Last(pageLog).resp.status = 403
    /\ Len(repos) = 3

(***************************************************************************)
(* calc_diff_boxes  (generate_lines_stats.py 75-90)                        *)
(***************************************************************************)
MaxBoxes == 5

\* Python's round() of the float n/d (n >= 0, d > 0): to the nearest integer,
\* a tie going to the even one.  (For the values modelled here the float
\* expression additions / total * 5 rounds as the exact quotient does.)
\* (rounding that sends a tie upwards)
RoundHalfUp(n, d) == (2 * n + d) \div (2 * d)
RoundHalfEven(n, d) ==
    LET q == n \div d
        r == n % d
    IN  IF 2 * r < d THEN q
        ELSE IF 2 * r > d THEN q + 1
        ELSE IF q % 2 = 0 THEN q ELSE q + 1

\* max(1, min(5, round(ratio * 5))) if value > 0 else 0
BoxCount(value, total) ==
    IF value > 0
    THEN Max(1, Min(MaxBoxes, IF total > 0
                              THEN RoundHalfEven(MaxBoxes * value, total)
                              ELSE 0))
    ELSE 0

calc_diff_boxes(additions, deletions, max_total) ==
    LET total == additions + deletions IN
    IF max_total = 0
    THEN <<0, 0>>
    ELSE <<BoxCount(additions, total), BoxCount(deletions, total)>>

(***************************************************************************)
(* generate_lines_svg  (generate_lines_stats.py 93-190)                    *)
(***************************************************************************)
TopN == 10
row_height == 22
header_height == 40
footer_height == 30

\* key=lambda x: x[1]['additions'] + abs(x[1]['deletions'])
SortKey(e) == e.additions + Abs(e.deletions)

\* sorted(..., reverse=True): a stable sort, so entries of equal key keep
\* the order they have in the dict (its insertion order).
InsertDesc(t, x) ==
    LET p == Cardinality({i \in 1..Len(t) : SortKey(t[i]) >= SortKey(x)})
    IN  SubSeq(t, 1, p) \o <<x>> \o SubSeq(t, p + 1, Len(t))

\* (no sort at all)
SortedDescOff(s) == s
RECURSIVE SortedDesc(_)
SortedDesc(s) ==
    IF s = <<>> THEN <<>>
    ELSE InsertDesc(SortedDesc(SubSeq(s, 1, Len(s) - 1)), s[Len(s)])

\* (no cut to the first 10)
TopReposAll(sorted) == sorted
\* sorted_repos[:10]
TopRepos(sorted) == SubSeq(sorted, 1, Min(TopN, Len(sorted)))

RECURSIVE SumAdditions(_)
SumAdditions(s) ==
    IF s = <<>> THEN 0 ELSE Head(s).additions + SumAdditions(Tail(s))

RECURSIVE SumAbsDeletions(_)
SumAbsDeletions(s) ==
    IF s = <<>> THEN 0 ELSE Abs(Head(s).deletions) + SumAbsDeletions(Tail(s))

RECURSIVE MaxKey(_)
MaxKey(s) ==
    IF Len(s) = 1 THEN SortKey(s[1]) ELSE Max(SortKey(Head(s)), MaxKey(Tail(s)))

\* The rendered document, as the data it shows: one row per listed
\* repository (name, +additions, -|deletions|, boxes) and the footer.
generate_lines_svg(stats) ==
    LET sorted_repos == SortedDesc(stats)
        top_repos == TopRepos(sorted_repos)
        max_total == IF top_repos # <<>> THEN MaxKey(top_repos) ELSE 1
    IN  [rows |-> [i \in 1..Len(top_repos) |->
                     LET boxes == calc_diff_boxes(top_repos[i].additions,
                                                  Abs(top_repos[i].deletions),
                                                  max_total)
                     IN  [name |-> top_repos[i].name,
                          additions |-> top_repos[i].additions,
                          deletions |-> Abs(top_repos[i].deletions),
                          add_boxes |-> boxes[1],
                          del_boxes |-> boxes[2]]],
         total_added |-> SumAdditions(stats),
         total_deleted |-> SumAbsDeletions(stats),
         count |-> Len(stats),
         height |-> header_height + Len(top_repos) * row_height + footer_height]

(***************************************************************************)
(* main  (generate_lines_stats.py 193-237)                                 *)
(***************************************************************************)
Rounds == 3

\* repo_names = [repo["name"] for repo in repos]: get_org_repos can return any
\* finite list of repository objects (SpecRepos), a name twice included when
\* the listing changes between two page requests.  Names are opaque, so the
\* lists are taken up to renaming: a name k > 1 first occurs after k - 1.
RepoLists ==
    { s \in UNION { [1..n -> Names] : n \in 0..MaxRepos } :
        \A i \in 1..Len(s) :
           \A k \in 1..(s[i] - 1) : \E j \in 1..(i - 1) : s[j] = k }

DictKeys(d) == { d[i].name : i \in 1..Len(d) }

\* d[k] = v on an insertion-ordered dict
DictSet(d, e) ==
    IF e.name \in DictKeys(d)
    THEN [i \in 1..Len(d) |-> IF d[i].name = e.name THEN e ELSE d[i]]
    ELSE Append(d, e)

\* sum(week[k] for week in code_freq if len(week) >= 3)   (k is 1-based here)
RECURSIVE WeekSum(_, _)
WeekSum(code_freq, k) ==
    IF code_freq = <<>> THEN 0
    ELSE (IF Len(Head(code_freq)) >= 3 THEN Head(code_freq)[k] ELSE 0)
           + WeekSum(Tail(code_freq), k)

\* (storing the totals whatever was fetched)
StoreStatsAlways(stats, name, code_freq) ==
    DictSet(stats, [name |-> name,
                    additions |-> WeekSum(code_freq, 2),
                    deletions |-> WeekSum(code_freq, 3)])
\* lines 214-223: store the totals of a repository with non-trivial data
StoreStats(stats, name, code_freq) ==
    IF Truthy(code_freq)
    THEN LET total_additions == WeekSum(code_freq, 2)
             total_deletions == WeekSum(code_freq, 3)
         IN  IF total_additions > 0 \/ total_deletions < 0
             THEN DictSet(stats, [name |-> name,
                                  additions |-> total_additions,
                                  deletions |-> total_deletions])
             ELSE stats
    ELSE stats

\* (every listed name, satisfied or not)
PendingAll(names, stats) == names
\* pending = [name for name in repo_names if name not in repo_stats]
PendingOf(names, stats) ==
    SelectSeq(names, LAMBDA n : n \notin DictKeys(stats))

InitLines ==
    /\ m_pc = "round"
    /\ repo_names \in RepoLists
    /\ repo_stats = <<>>
    /\ round_num = 0
    /\ pending = <<>>
    /\ idx = 0
    /\ svg = NoSvg
    /\ fetches = [n \in Names |-> 0]
    /\ watched \in Names
    /\ watchedWait = 0
    /\ IdleFetch
    /\ IdleList
    /\ IdleBoxes
    /\ IdleActivity
    /\ IdleOrder

\* entering get_code_frequency(name)
BeginCall(name) ==
    /\ cf_pc' = "POLLING"
    /\ waited' = 0
    /\ ret' = <<>>
    /\ fetches' = [fetches EXCEPT ![name] = @ + 1]

\* the head of the for loop: next round, or leave the loop
StartRound ==
    /\ m_pc = "round"
    /\ IF round_num < Rounds /\ PendingOf(repo_names, repo_stats) # <<>>
       THEN /\ round_num' = round_num + 1
            /\ pending' = PendingOf(repo_names, repo_stats)
            /\ idx' = 1
            /\ m_pc' = "fetch"
            /\ BeginCall(PendingOf(repo_names, repo_stats)[1])
       ELSE /\ m_pc' = "render"
            /\ UNCHANGED <<round_num, pending, idx, cf_pc, waited, ret, fetches>>
    /\ UNCHANGED <<repo_names, repo_stats, svg, watched, watchedWait>>
    /\ UNCHANGED <<respLog, sleepLog, listVars, boxVars, actVars, orderVars>>

\* one poll of get_code_frequency(pending[idx])
PollL ==
    /\ m_pc = "fetch"
    /\ cf_pc = "POLLING"
    /\ LoopGuard(waited)
    /\ \E resp \in CodeFreqResponses :
         LET r == PollStep(waited, resp) IN
         /\ cf_pc' = r.pc
         /\ waited' = r.waited
         /\ ret' = r.ret
         /\ watchedWait' = IF pending[idx] = watched
                           THEN watchedWait + SumSeq(r.slept)
                           ELSE watchedWait
    /\ UNCHANGED <<m_pc, repo_names, repo_stats, round_num, pending, idx, svg,
                   fetches, watched>>
    /\ UNCHANGED <<respLog, sleepLog, listVars, boxVars, actVars, orderVars>>

TimeoutL ==
    /\ m_pc = "fetch"
    /\ cf_pc = "POLLING"
    /\ ~LoopGuard(waited)
    /\ cf_pc' = "TIMEOUT"
    /\ ret' = <<>>
    /\ UNCHANGED <<waited, respLog, sleepLog, listVars, linesVars, boxVars, actVars, orderVars>>

\* lines 214-225 for pending[idx], then the next repository or the next round
Process ==
    /\ m_pc = "fetch"
    /\ cf_pc \in {"DATA", "PERMANENT_ERROR", "TIMEOUT"}
    /\ repo_stats' = StoreStats(repo_stats, pending[idx], ret)
    /\ IF idx < Len(pending)
       THEN /\ idx' = idx + 1
            /\ BeginCall(pending[idx + 1])
            /\ UNCHANGED m_pc
       ELSE /\ m_pc' = "round"
            /\ cf_pc' = "idle"
            /\ waited' = 0
            /\ ret' = <<>>
            /\ UNCHANGED <<idx, fetches>>
    /\ UNCHANGED <<repo_names, round_num, pending, svg, watched, watchedWait>>
    /\ UNCHANGED <<respLog, sleepLog, listVars, boxVars, actVars, orderVars>>

\* lines 234-237
Render ==
    /\ m_pc = "render"
    /\ svg' = generate_lines_svg(repo_stats)
    /\ m_pc' = "done"
    /\ UNCHANGED <<repo_names, repo_stats, round_num, pending, idx, fetches,
                   watched, watchedWait>>
    /\ UNCHANGED <<fetchVars, listVars, boxVars, actVars, orderVars>>

NextLines == StartRound \/ PollL \/ TimeoutL \/ Process \/ Render

SpecLines == InitLines /\ [][NextLines]_vars

Range(s) == { s[i] : i \in 1..Len(s) }
NoDup(s) == \A i, j \in 1..Len(s) : s[i] = s[j] => i = j
Occurrences(s, x) == Cardinality({ i \in 1..Len(s) : s[i] = x })
Missing == Range(repo_names) \ DictKeys(repo_stats)
Entries(d) == { d[i] : i \in 1..Len(d) }

\* state part of C3
RoundsInv ==
    /\ round_num <= 3
    /\ m_pc = "round" =>
         \A n \in Range(repo_names) :
            IF n \in DictKeys(repo_stats)
            THEN fetches[n] <= round_num
            ELSE fetches[n] = round_num
    /\ m_pc = "fetch" =>
         \A i \in idx..Len(pending) : pending[i] \notin DictKeys(repo_stats)
    /\ m_pc \in {"render", "done"} => (round_num = 3 \/ Missing = {})

\* step part of C3
RoundsStep ==
    /\ \A n \in Names :
         n \in DictKeys(repo_stats) => fetches'[n] = fetches[n]
    /\ Entries(repo_stats) \subseteq Entries(repo_stats')
    /\ (m_pc = "round" /\ m_pc' = "fetch") => Range(pending') = Missing
    /\ (m_pc = "round" /\ Missing = {}) => m_pc' = "render"
    /\ (m_pc = "round" /\ Missing # {} /\ round_num < 3) => m_pc' = "fetch"

\* C3 as claimed: at most 3 rounds; a repository that has an entry is never
\* fetched again and its entry never changes; every repository without an
\* entry is fetched again in the next round; the rounds stop as soon as no
\* repository is missing.
C3_AsClaimed == []RoundsInv /\ [][RoundsStep]_vars

\* C3 (amended): the same, provided the listing holds no repository name
\* twice.
C3_Rounds == [](NoDup(repo_names) => RoundsInv)
               /\ [][NoDup(repo_names) => RoundsStep]_vars

C3_Witness ==
    /\ NoDup(repo_names)
    /\ Len(repo_names) = 2
    /\ m_pc = "fetch"
    /\ round_num = 3
    /\ Len(repo_stats) = 1
    /\ Len(pending) = 1

\* C4 as claimed: over the whole run the polling for one repository waits at
\* most 60 s in total.
C4_AsClaimed == watchedWait <= 60

\* C4 (amended): each call of get_code_frequency waits at most 60 s; a
\* repository is polled once in each of up to 3 rounds (per occurrence of its
\* name in the listing), so over the run its polling waits at most 180 s.
C4_WaitBound ==
    /\ waited <= 60
    /\ watchedWait <= 180 * Occurrences(repo_names, watched)

C4_Witness ==
    /\ m_pc = "done"
    /\ Occurrences(repo_names, watched) = 1
    /\ watchedWait = 180

RECURSIVE SumOverSet(_, _)
SumOverSet(S, field) ==
    IF S = {} THEN 0
    ELSE LET e == CHOOSE x \in S : TRUE
         IN  (IF field = "additions" THEN e.additions ELSE Abs(e.deletions))
               + SumOverSet(S \ {e}, field)

\* state part of C5
MissingInv ==
    /\ \A e \in Entries(repo_stats) : e.additions > 0 \/ e.deletions < 0
    /\ m_pc \in {"round", "fetch"} =>
         ENABLED (StartRound \/ PollL \/ TimeoutL \/ Process)
    /\ m_pc = "done" =>
         /\ svg.height > 0
         /\ \A n \in Missing :
              \A i \in 1..Len(svg.rows) : svg.rows[i].name # n
         /\ svg.count = Cardinality(Range(repo_names) \ Missing)
         /\ svg.total_added = SumOverSet(Entries(repo_stats), "additions")
         /\ svg.total_deleted = SumOverSet(Entries(repo_stats), "deletions")

\* step part of C5: an entry is stored or changed only when the call for
\* that repository has just returned data
MissingStep ==
    \A e \in Entries(repo_stats') \ Entries(repo_stats) :
        /\ cf_pc = "DATA"
        /\ ret # <<>>
        /\ e.name = pending[idx]

\* C5: a repository whose fetch times out or fails in every round has no
\* entry at render time, so it is not listed, adds nothing to the totals and
\* is not counted, and the run still goes on to render; every stored entry
\* has additions > 0 or deletions < 0.
C5_Missing == []MissingInv /\ [][MissingStep]_vars

C5_Witness ==
    /\ m_pc = "done"
    /\ svg.count = 1
    /\ Len(svg.rows) = 1
    /\ \E n \in Missing : fetches[n] = 3

(***************************************************************************)
(* generate_lines_svg on its own: every repo_stats dict of up to SvgRepos  *)
(* entries                                                                 *)
(***************************************************************************)
SvgRepos == 11

\* <<additions, deletions>> of a stored entry (additions > 0 or deletions < 0)
StatChoices == { <<2, 0>>, <<1, -3>> }

SvgInputs ==
    UNION { { [i \in 1..n |-> [name |-> i,
                               additions |-> f[i][1],
                               deletions |-> f[i][2]]] :
              f \in [1..n -> StatChoices] } : n \in 0..SvgRepos }

InitSvg ==
    /\ m_pc = "render"
    /\ repo_stats \in SvgInputs
    /\ repo_names = [i \in 1..Len(repo_stats) |-> repo_stats[i].name]
    /\ round_num = 0
    /\ pending = <<>>
    /\ idx = 0
    /\ svg = NoSvg
    /\ fetches = <<>>
    /\ watched = 0
    /\ watchedWait = 0
    /\ IdleFetch
    /\ IdleList
    /\ IdleBoxes
    /\ IdleActivity
    /\ IdleOrder

NextSvg == Render

SpecSvg == InitSvg /\ [][NextSvg]_vars

RowKey(r) == r.additions + r.deletions
RowNames == { svg.rows[i].name : i \in 1..Len(svg.rows) }

\* C10: generate_lines_svg lists min(10, n) of the n stored repositories in
\* non-increasing order of additions + |deletions|, no omitted repository
\* having a larger total than a listed one; the footer's totals and count
\* cover all stored repositories.
C10_TopTen ==
    m_pc = "done" =>
      /\ Len(svg.rows) = (IF Len(repo_stats) < 10 THEN Len(repo_stats) ELSE 10)
      /\ \A i, j \in 1..Len(svg.rows) :
           /\ i < j => RowKey(svg.rows[i]) >= RowKey(svg.rows[j])
           /\ i # j => svg.rows[i].name # svg.rows[j].name
      /\ \A i \in 1..Len(svg.rows) :
           \E e \in Entries(repo_stats) :
              /\ e.name = svg.rows[i].name
              /\ e.additions = svg.rows[i].additions
              /\ Abs(e.deletions) = svg.rows[i].deletions
      /\ \A e \in Entries(repo_stats) :
           e.name \notin RowNames =>
             \A i \in 1..Len(svg.rows) :
                e.additions + Abs(e.deletions) <= RowKey(svg.rows[i])
      /\ svg.total_added = SumOverSet(Entries(repo_stats), "additions")
      /\ svg.total_deleted = SumOverSet(Entries(repo_stats), "deletions")
      /\ svg.count = Len(repo_stats)

C10_Witness ==
    /\ m_pc = "done"
    /\ Len(repo_stats) = 11
    /\ Len(svg.rows) = 10
    /\ svg.rows[1].name = 11
    /\ 10 \notin RowNames
    /\ svg.total_added > SumSeq([i \in 1..10 |-> svg.rows[i].additions])

(***************************************************************************)
(* calc_diff_boxes on its own                                              *)
(***************************************************************************)
MaxLines == 100

BoxInputs ==
    { [additions |-> a, deletions |-> d, max_total |-> m] :
        a \in 0..MaxLines, d \in 0..MaxLines, m \in {0, 100} }

InitBoxes ==
    /\ b_pc = "call"
    /\ b_in \in BoxInputs
    /\ b_out = <<0, 0>>
    /\ IdleFetch
    /\ IdleList
    /\ IdleLines
    /\ IdleActivity
    /\ IdleOrder

CallBoxes ==
    /\ b_pc = "call"
    /\ b_out' = calc_diff_boxes(b_in.additions, b_in.deletions, b_in.max_total)
    /\ b_pc' = "done"
    /\ UNCHANGED <<b_in, fetchVars, listVars, linesVars, actVars, orderVars>>

NextBoxes == CallBoxes

SpecBoxes == InitBoxes /\ [][NextBoxes]_vars

\* b is an integer nearest to 5 * v / t
Nearest(b, v, t) == 2 * b * t - t <= 10 * v /\ 10 * v <= 2 * b * t + t
\* 5 * v / t lies exactly halfway between two integers
IsTie(b, v, t) == 10 * v = 2 * b * t - t \/ 10 * v = 2 * b * t + t

\* the count claimed for value v of total t: round(share * 5), floored at 1
\* for a non-zero value, capped at 5, and 0 for a zero value
BoxAsClaimed(b, v, t) ==
    IF v = 0 THEN b = 0
    ELSE /\ b \in 1..5
         /\ Nearest(b, v, t) \/ (b = 1 /\ 10 * v < t)

\* C8 as claimed: the box counts follow round(share * 5) with the floor and
\* the cap, and calc_diff_boxes(90, 10, 100) returns (5, 1).
C8_AsClaimed ==
    (b_pc = "done" /\ b_in.max_total # 0) =>
      /\ BoxAsClaimed(b_out[1], b_in.additions, b_in.additions + b_in.deletions)
      /\ BoxAsClaimed(b_out[2], b_in.deletions, b_in.additions + b_in.deletions)
      /\ (b_in.additions = 90 /\ b_in.deletions = 10) => b_out = <<5, 1>>

\* the same with a tie of round() going to the even integer
BoxHalfEven(b, v, t) ==
    /\ BoxAsClaimed(b, v, t)
    /\ (v > 0 /\ IsTie(b, v, t)) => (b % 2 = 0 \/ (b = 1 /\ 10 * v = t))
    /\ (v > 0 /\ b = 1) => 10 * v < 3 * t

\* C8 (amended): for max_total # 0 the box counts follow round(share * 5)
\* with a tie rounded to the even integer, floored at 1 for a non-zero value,
\* capped at 5, 0 for a zero value; for max_total = 0 both are 0; and
\* calc_diff_boxes(90, 10, 100) returns (4, 1).
C8_Boxes ==
    b_pc = "done" =>
      IF b_in.max_total = 0 THEN b_out = <<0, 0>>
      ELSE /\ BoxHalfEven(b_out[1], b_in.additions,
                          b_in.additions + b_in.deletions)
           /\ BoxHalfEven(b_out[2], b_in.deletions,
                          b_in.additions + b_in.deletions)
           /\ (b_in.additions = 90 /\ b_in.deletions = 10) => b_out = <<4, 1>>

C8_Witness ==
    /\ b_pc = "done"
    /\ b_in = [additions |-> 90, deletions |-> 10, max_total |-> 100]
    /\ b_out = <<4, 1>>

(***************************************************************************)
(* generate_activity_graph.py: get_daily_commits (46-72),                  *)
(* generate_full_activity_svg (75-138), main (141-162)                     *)
(*                                                                         *)
(* A calendar date (UTC) is an integer: 0 is today, -1 yesterday, ...      *)
(***************************************************************************)
days == 90             \* get_daily_commits(repo_name, days=90)
per_page == 100
oldest == 89           \* range(89, -1, -1)
MaxCommitPages == 2    \* cap on the commit pages requested per repository

\* A commit as the API returns it: only commit.author.date is read, a
\* timestamp <<date, seconds of the day>>.
Commit(d) == [date |-> <<d, 43200>>]

\* commit["commit"]["author"]["date"][:10]: the date part of the timestamp
DateStr(c) == c.date[1]

Repeat(c, n) == [i \in 1..n |-> c]

\* Pages of the commit listing.  `since` is now - 90 days, a time of the
\* calendar date -90, so the listing reaches back to commits of that date.
CommitPages ==
    { <<>>,
      <<Commit(0)>>,
      <<Commit(-89), Commit(-3), Commit(-89)>>,
      <<Commit(0 - days), Commit(-3)>>,
      Repeat(Commit(-1), per_page),
      Repeat(Commit(0 - days), per_page - 1) \o <<Commit(0)>> }

CommitResponses ==
    [status : {200}, body : CommitPages]
      \cup { [status |-> 409, body |-> <<Commit(0)>>] }

\* defaultdict(int) as a function on the keys present
MapGet(m, k) == IF k \in DOMAIN m THEN m[k] ELSE 0

\* for commit in data: commits_by_day[date_str] += 1
CountCommits(m, data) ==
    [x \in DOMAIN m \cup { DateStr(data[i]) : i \in 1..Len(data) } |->
       MapGet(m, x) + Cardinality({ i \in 1..Len(data) : DateStr(data[i]) = x })]

\* One iteration of the loop of get_daily_commits, given the response.
CommitsStep(cbd, pg, resp) ==
    IF resp.status # 200
    THEN [return |-> TRUE, commits_by_day |-> cbd, page |-> pg]
    ELSE IF ~Truthy(resp.body)
    THEN [return |-> TRUE, commits_by_day |-> cbd, page |-> pg]
    ELSE IF Len(resp.body) < per_page
    THEN [return |-> TRUE, commits_by_day |-> CountCommits(cbd, resp.body),
          page |-> pg]
    ELSE [return |-> FALSE, commits_by_day |-> CountCommits(cbd, resp.body),
          page |-> pg + 1]

\* (assignment instead of +=)
MergeOverwrite(all, daily) ==
    [x \in DOMAIN all \cup DOMAIN daily |->
       IF x \in DOMAIN daily THEN daily[x] ELSE all[x]]
\* for date, count in daily.items(): all_daily_commits[date] += count
MergeDaily(all, daily) ==
    [x \in DOMAIN all \cup DOMAIN daily |-> MapGet(all, x) + MapGet(daily, x)]

\* max(values)
MaxSeq(s) == CHOOSE v \in { s[i] : i \in 1..Len(s) } :
                \A i \in 1..Len(s) : s[i] <= v

\* The plotted series: dates, values, the scale and the total shown.
generate_full_activity_svg(daily_data) ==
    LET dates == [j \in 1..(oldest + 1) |-> 0 - (oldest - (j - 1))]
        values == [j \in 1..(oldest + 1) |-> MapGet(daily_data, dates[j])]
    IN  [dates |-> dates,
         values |-> values,
         max_val |-> IF MaxSeq(values) > 0 THEN MaxSeq(values) ELSE 1,
         total |-> SumSeq(values)]

InitActivity ==
    /\ a_names \in RepoLists
    /\ a_pc = IF a_names = <<>> THEN "render" ELSE "commits"
    /\ a_idx = IF a_names = <<>> THEN 0 ELSE 1
    /\ c_page = 1
    /\ commits_by_day = <<>>
    /\ all_daily_commits = <<>>
    /\ dailyLog = <<>>
    /\ chart = NoChart
    /\ IdleFetch
    /\ IdleList
    /\ IdleLines
    /\ IdleBoxes
    /\ IdleOrder

\* one page request of get_daily_commits(a_names[a_idx]); when the call
\* returns, main adds its map to all_daily_commits and goes on
FetchCommitsPage ==
    /\ a_pc = "commits"
    /\ c_page <= MaxCommitPages
    /\ \E resp \in CommitResponses :
         LET r == CommitsStep(commits_by_day, c_page, resp) IN
         IF r.return
         THEN /\ dailyLog' = Append(dailyLog, r.commits_by_day)
              /\ all_daily_commits' =
                    MergeDaily(all_daily_commits, r.commits_by_day)
              /\ commits_by_day' = <<>>
              /\ c_page' = 1
              /\ IF a_idx < Len(a_names)
                 THEN a_idx' = a_idx + 1 /\ UNCHANGED a_pc
                 ELSE a_pc' = "render" /\ UNCHANGED a_idx
         ELSE /\ commits_by_day' = r.commits_by_day
              /\ c_page' = r.page
              /\ UNCHANGED <<a_pc, a_idx, all_daily_commits, dailyLog>>
    /\ UNCHANGED <<a_names, chart>>
    /\ UNCHANGED <<fetchVars, listVars, linesVars, boxVars, orderVars>>

RenderActivity ==
    /\ a_pc = "render"
    /\ chart' = generate_full_activity_svg(all_daily_commits)
    /\ a_pc' = "done"
    /\ UNCHANGED <<a_names, a_idx, c_page, commits_by_day, all_daily_commits,
                   dailyLog>>
    /\ UNCHANGED <<fetchVars, listVars, linesVars, boxVars, orderVars>>

NextActivity == FetchCommitsPage \/ RenderActivity

SpecActivity == InitActivity /\ [][NextActivity]_vars

RECURSIVE MapTotal(_)
MapTotal(m) ==
    IF DOMAIN m = {} THEN 0
    ELSE LET k == CHOOSE x \in DOMAIN m : TRUE
         IN  m[k] + MapTotal([x \in DOMAIN m \ {k} |-> m[x]])

RECURSIVE InputsOn(_, _)
InputsOn(log, d) ==
    IF log = <<>> THEN 0 ELSE MapGet(Head(log), d) + InputsOn(Tail(log), d)

RECURSIVE InputsTotal(_)
InputsTotal(log) ==
    IF log = <<>> THEN 0 ELSE MapTotal(Head(log)) + InputsTotal(Tail(log))

InputDates == UNION { DOMAIN dailyLog[i] : i \in 1..Len(dailyLog) }

\* The part of C6 about the buckets: exactly 90 buckets over the 90
\* consecutive dates ending today, ascending, each the non-negative sum of
\* that date's counts over all repositories.
Buckets ==
    /\ Len(chart.dates) = 90
    /\ Len(chart.values) = 90
    /\ chart.dates[90] = 0
    /\ \A j \in 1..89 : chart.dates[j + 1] = chart.dates[j] + 1
    /\ \A j \in 1..90 :
         /\ chart.values[j] >= 0
         /\ chart.values[j] = InputsOn(dailyLog, chart.dates[j])

\* C6 as claimed: the buckets, and the sum of the 90 bucket values equals
\* the sum of all input commit counts.
C6_AsClaimed ==
    a_pc = "done" =>
      /\ Buckets
      /\ SumSeq(chart.values) = InputsTotal(dailyLog)

\* C6 (amended): the buckets, and the sum of the 90 bucket values equals the
\* sum of the input commit counts dated within the 90 dates; counts dated
\* outside them (the date 90 days ago, which `since` still admits) are left
\* out, so the sum never exceeds the sum of all input counts.
C6_Buckets ==
    a_pc = "done" =>
      /\ Buckets
      /\ SumSeq(chart.values) =
           InputsTotal(dailyLog)
             - SumSeq([i \in 1..Len(dailyLog) |->
                         MapTotal([d \in { x \in DOMAIN dailyLog[i] :
                                             x < -89 \/ x > 0 } |->
                                     dailyLog[i][d]])])
      /\ chart.total = SumSeq(chart.values)

C6_Witness ==
    /\ a_pc = "done"
    /\ Len(dailyLog) = 2
    /\ MapGet(dailyLog[1], -3) = 1
    /\ MapGet(dailyLog[2], -3) = 1
    /\ MapGet(dailyLog[2], -90) = 1
    /\ chart.values[87] = 2
    /\ chart.total = 2

(***************************************************************************)
(* Order independence: the aggregation of both jobs run twice, in two      *)
(* processing orders, over the same fetched per-repository data:           *)
(* generate_lines_stats.py main 209-222 and 234,                           *)
(* generate_activity_graph.py main 149-154 and 159                         *)
(***************************************************************************)
Perms == { p \in [1..MaxRepos -> Names] :
             \A i, j \in 1..MaxRepos : p[i] = p[j] => i = j }

\* daily commit maps as get_daily_commits returns them
DailyChoices ==
    { <<>>,
      [d \in {-3} |-> 1],
      [d \in {-3, 0} |-> IF d = 0 THEN 1 ELSE 2] }

InitOrder ==
    /\ o_pc = "run"
    /\ o_idx = 0
    /\ orderA = [i \in 1..MaxRepos |-> i]
    /\ orderB \in Perms
    /\ fetchedCF \in [Names -> Bodies]
    /\ fetchedDaily \in [Names -> DailyChoices]
    /\ statsA = <<>>
    /\ statsB = <<>>
    /\ dailyA = <<>>
    /\ dailyB = <<>>
    /\ outA = NoOut
    /\ outB = NoOut
    /\ IdleFetch
    /\ IdleList
    /\ IdleLines
    /\ IdleBoxes
    /\ IdleActivity

\* each run processes its next repository
OrderStep ==
    /\ o_pc = "run"
    /\ o_idx < MaxRepos
    /\ o_idx' = o_idx + 1
    /\ statsA' = StoreStats(statsA, orderA[o_idx + 1],
                            fetchedCF[orderA[o_idx + 1]])
    /\ statsB' = StoreStats(statsB, orderB[o_idx + 1],
                            fetchedCF[orderB[o_idx + 1]])
    /\ dailyA' = MergeDaily(dailyA, fetchedDaily[orderA[o_idx + 1]])
    /\ dailyB' = MergeDaily(dailyB, fetchedDaily[orderB[o_idx + 1]])
    /\ UNCHANGED <<o_pc, orderA, orderB, fetchedCF, fetchedDaily, outA, outB>>
    /\ UNCHANGED <<fetchVars, listVars, linesVars, boxVars, actVars>>

\* each run renders what it aggregated
OrderRender ==
    /\ o_pc = "run"
    /\ o_idx = MaxRepos
    /\ outA' = [svg |-> generate_lines_svg(statsA),
                chart |-> generate_full_activity_svg(dailyA)]
    /\ outB' = [svg |-> generate_lines_svg(statsB),
                chart |-> generate_full_activity_svg(dailyB)]
    /\ o_pc' = "done"
    /\ UNCHANGED <<o_idx, orderA, orderB, fetchedCF, fetchedDaily, statsA,
                   statsB, dailyA, dailyB>>
    /\ UNCHANGED <<fetchVars, listVars, linesVars, boxVars, actVars>>

NextOrder == OrderStep \/ OrderRender

SpecOrder == InitOrder /\ [][NextOrder]_vars

DistinctKeys(d) ==
    \A i, j \in 1..Len(d) : SortKey(d[i]) = SortKey(d[j]) => i = j

\* what both jobs show whatever the order: the 90 daily values, the stored
\* repositories, the grand totals and the count
SameAggregates ==
    /\ outA.chart = outB.chart
    /\ Entries(statsA) = Entries(statsB)
    /\ outA.svg.total_added = outB.svg.total_added
    /\ outA.svg.total_deleted = outB.svg.total_deleted
    /\ outA.svg.count = outB.svg.count

\* C7 as claimed: any two processing orders give the same output in both
\* jobs, the ordered top-10 listing included, also when two repositories
\* have equal additions + |deletions|.
C7_AsClaimed ==
    o_pc = "done" => (SameAggregates /\ outA.svg.rows = outB.svg.rows)

\* C7 (amended): any two processing orders give the same 90 daily values,
\* the same stored repositories, grand totals and count; the ordered listing
\* is the same when no two stored repositories have equal
\* additions + |deletions| (repositories of equal totals are listed in the
\* order they were stored, which follows the processing order).
C7_OrderIndependent ==
    o_pc = "done" =>
      /\ SameAggregates
      /\ DistinctKeys(statsA) => outA.svg.rows = outB.svg.rows

C7_Witness ==
    /\ o_pc = "done"
    /\ orderA # orderB
    /\ Len(statsA) = 2
    /\ statsA # statsB
    /\ DistinctKeys(statsA)
    /\ outA.svg.rows = outB.svg.rows
    /\ outA.chart.total = 4
    /\ fetchedDaily[1] # fetchedDaily[2]
====
